---- MODULE Spec2Model ----
(***************************************************************************)
(* CausalDataGenerator (lingam/experimental/cdg.py): fit() stores models   *)
(* and residuals, generate() rebuilds a table from the residuals, the      *)
(* interventions and the models.  A table is a sequence of named columns   *)
(* (pandas allows repeated names in a selection), a column a sequence of   *)
(* integers, one per row.  scikit-learn estimators are opaque objects: a   *)
(* regressor is a linear map with one weight, a classifier a class set.    *)
(***************************************************************************)
EXTENDS Integers, Sequences, FiniteSets, TLC

VARIABLES fitted, heap, last

vars == <<fitted, heap, last>>

\* ---------------------------------------------------------------- bounds
NumRows == 2
MaxVal == 1
MaxWeight == 1

\* np.nan, the residual placeholder of a categorical target
NaN == -999

Rows == 1..NumRows
Seeds == {0, 1}

\* ------------------------------------------------------------ exceptions
NoExc == [type |-> "none", names |-> "", msg |-> "", origin |-> ""]

Exc(type) == [type |-> type, names |-> "", msg |-> "", origin |-> ""]

\* the exception a delegate (a caller's model or callable) raises by itself
UserExc(who) == [type |-> "UserError", names |-> "", msg |-> "boom", origin |-> who]

\* raise RuntimeError(f"{name}.fit(): {str(e)}") and
\* raise RuntimeError("Exception: cause_model: " + str(e))
Wrapped(who, e) == [type |-> "RuntimeError", names |-> who, msg |-> e.msg, origin |-> e.origin]

\* ---------------------------------------------------------------- tables
RECURSIVE SumSeq(_)
SumSeq(s) == IF s = <<>> THEN 0 ELSE Head(s) + SumSeq(Tail(s))

Const(n, v) == [i \in 1..n |-> v]

ColNames(cols) == [i \in 1..Len(cols) |-> cols[i].name]

NameSet(cols) == {cols[i].name : i \in 1..Len(cols)}

SeqSet(s) == {s[i] : i \in 1..Len(s)}

Matching(cols, n) == SelectSeq(cols, LAMBDA c : c.name = n)

\* df[name] of a name that occurs once
Col(cols, n) == Matching(cols, n)[1]

\* df[[n1, n2, ...]]: every column carrying each name, in the order asked
RECURSIVE SelectCols(_, _)
SelectCols(cols, names) ==
    IF names = <<>> THEN <<>>
    ELSE Matching(cols, Head(names)) \o SelectCols(cols, Tail(names))

Missing(cols, names) == \E i \in 1..Len(names) : names[i] \notin NameSet(cols)

\* df[name] = values: every column of that name is overwritten
SetCol(cols, n, vals, cat) ==
    [i \in 1..Len(cols) |->
        IF cols[i].name = n THEN [name |-> n, cat |-> cat, vals |-> vals] ELSE cols[i]]

\* the feature matrix a model sees: the columns' values, names dropped
Raw(cols) == [i \in 1..Len(cols) |-> cols[i].vals]

AddV(a, b) == IF a = NaN \/ b = NaN THEN NaN ELSE a + b

AddVec(noise, pred) == [i \in 1..Len(noise) |-> AddV(noise[i], pred[i])]

SubVec(y, pred) == [i \in 1..Len(y) |-> IF y[i] = NaN THEN NaN ELSE y[i] - pred[i]]

\* ------------------------------------------------------ one-hot encoding
\* sorted unique values, as OneHotEncoder.categories_ and classes_ hold them
RECURSIVE Sorted(_)
Sorted(S) ==
    IF S = {} THEN <<>>
    ELSE LET m == CHOOSE x \in S : \A y \in S : x <= y
         IN <<m>> \o Sorted(S \ {m})

Categories(col) == Sorted(SeqSet(col.vals))

\* one indicator column per category
Indicators(vals, cats) ==
    [k \in 1..Len(cats) |-> [i \in 1..Len(vals) |-> IF vals[i] = cats[k] THEN 1 ELSE 0]]

RECURSIVE Flatten(_)
Flatten(ss) == IF ss = <<>> THEN <<>> ELSE Head(ss) \o Flatten(Tail(ss))

\* the encoder of the default pipeline: for each categorical feature its name
\* and the categories seen in fit
Encoder(cols) ==
    LET cats == SelectSeq(cols, LAMBDA c : c.cat)
    IN [i \in 1..Len(cats) |-> [name |-> cats[i].name, cats |-> Categories(cats[i])]]

EncNames(enc) == {enc[i].name : i \in 1..Len(enc)}

\* ColumnTransformer([("categorical", OneHotEncoder, categoricals),
\*                    ("numeric", "passthrough", numerics)])
OneHot(cols, enc) ==
    Flatten([k \in 1..Len(enc) |-> Indicators(Col(cols, enc[k].name).vals, enc[k].cats)])
    \o Raw(SelectSeq(cols, LAMBDA c : c.name \notin EncNames(enc)))

\* OneHotEncoder(handle_unknown="error"): a value not seen in fit
UnknownCategory(cols, enc) ==
    \E k \in 1..Len(enc) :
        \E v \in SeqSet(Col(cols, enc[k].name).vals) : v \notin SeqSet(enc[k].cats)

\* ------------------------------------------------------------ estimators
\* The estimator objects a caller can pass: R a regressor, Rf a regressor
\* whose fit raises, Rp a regressor whose predict raises, K a classifier
\* with predict_proba, Kn a classifier without it.
UserModels == {"R", "Rf", "Rp", "K", "Kn"}

\* the objects whose fitted parameters are kept (the others never get stored)
Stored == {"R", "K"}

IsRegressor(id) == id \in {"R", "Rf", "Rp"}

IsClassifier(id) == id \in {"K", "Kn"}

HasPredictProba(id) == id = "K"

FitRaises(id) == id = "Rf"

PredictRaises(id) == id = "Rp"

NoModel == [kind |-> "none", id |-> ""]

UserModel(id) == [kind |-> "user", id |-> id]

Unfit == [fit |-> FALSE, clf |-> FALSE, w |-> 0, classes |-> <<>>, nfeat |-> 0, enc |-> <<>>]

\* the parameters behind a model reference: a caller's object lives on the
\* heap and is shared, a default model is owned by the generator
Deref(model, hp) ==
    IF model.kind = "user" THEN (IF model.id \in Stored THEN hp[model.id] ELSE Unfit)
    ELSE IF model.kind = "default" THEN model.st
    ELSE Unfit

\* one event of a call: a delegate's fit or predict with the matrix it got,
\* a custom callable's call, the working table's construction
Event(ev, who, user, X) == [ev |-> ev, who |-> who, user |-> user, X |-> X]

\* what model.predict raises, if anything: the caller's own failure, or
\* scikit-learn's check of the feature count, or the encoder's of the values
PredictExc(who, model, st, cols) ==
    IF model.kind = "user" /\ PredictRaises(model.id) THEN UserExc(who)
    ELSE IF Len(cols) # st.nfeat
         THEN [type |-> "ValueError", names |-> "", msg |-> "n_features",
               origin |-> IF model.kind = "user" THEN who ELSE ""]
    ELSE IF UnknownCategory(cols, st.enc) THEN Exc("ValueError")
    ELSE NoExc

\* model.predict(X) of a regressor: linear in the (encoded) features
PredictVals(st, cols) ==
    LET M == IF st.enc = <<>> THEN Raw(cols) ELSE OneHot(cols, st.enc)
    IN [i \in 1..Len(cols[1].vals) |->
            st.w * SumSeq([k \in 1..Len(M) |-> k * M[k][i]])]

\* the matrix the default estimator is fitted on: behind the one-hot
\* pipeline when a feature is categorical, lines 290-305
DefaultFitInput(feat) ==
    IF Encoder(feat) = <<>> THEN Raw(feat) ELSE OneHot(feat, Encoder(feat))

\* a caller-supplied model put behind the default pipeline's encoder
EncodedFitInput(feat) == DefaultFitInput(feat)

\* the matrix a caller-supplied model is fitted on: model.fit(X, y), line 281
UserFitInput(feat) == Raw(feat)

\* the estimator's own exception let through
FitErrorEscapes(name, e) == e

\* the failure of a caller-supplied model's fit, lines 280-283
WrapFit(name, e) == Wrapped(name, e)

\* residuals of a continuous target, line 310
Residuals(y, pred) == SubVec(y, pred)

\* the weight a regressor's fit arrives at: fit is a deterministic function of
\* the training data (LinearRegression has no random state)
FitWeight(feat, y) == SumSeq(y.vals) % (MaxWeight + 1)

\* _make_model(X, y, name, model)
MakeModel(feat, y, name, model, hp) ==
    LET user == model.kind = "user"
        st == [fit |-> TRUE, clf |-> y.cat, w |-> IF y.cat THEN 0 ELSE FitWeight(feat, y),
               classes |-> IF y.cat THEN Categories(y) ELSE <<>>,
               nfeat |-> Len(feat),
               enc |-> IF user THEN <<>> ELSE Encoder(feat)]
        fitX == IF user THEN UserFitInput(feat) ELSE DefaultFitInput(feat)
        fitExc == IF user
                  THEN (IF FitRaises(model.id) THEN WrapFit(name, UserExc(name)) ELSE NoExc)
                  ELSE IF y.cat /\ Len(st.classes) < 2 THEN Exc("ValueError")
                  ELSE NoExc
        hp1 == IF user /\ fitExc = NoExc /\ model.id \in Stored
               THEN [hp EXCEPT ![model.id] = st] ELSE hp
        out == IF user THEN model ELSE [kind |-> "default", id |-> "", st |-> st]
        fitEv == <<Event("fit", name, user, fitX)>>
        predEv == <<Event("predict", name, user, Raw(feat))>>
        pExc == PredictExc(name, out, st, feat)
    IN  IF fitExc # NoExc
        THEN [exc |-> fitExc, model |-> NoModel, resid |-> <<>>, heap |-> hp1, log |-> fitEv]
        ELSE IF y.cat
        THEN [exc |-> NoExc, model |-> out, resid |-> [vals |-> Const(Len(y.vals), NaN), cat |-> FALSE],
              heap |-> hp1, log |-> fitEv]
        ELSE IF pExc # NoExc
        THEN [exc |-> pExc, model |-> NoModel, resid |-> <<>>, heap |-> hp1, log |-> fitEv \o predEv]
        ELSE [exc |-> NoExc, model |-> out,
              resid |-> [vals |-> Residuals(y.vals, PredictVals(st, feat)), cat |-> FALSE],
              heap |-> hp1, log |-> fitEv \o predEv]

\* _is_sklearn_estimator(estimator, is_categorical)
IsSklearnEstimator(model, is_categorical) ==
    IF model.kind # "user" THEN NoExc
    ELSE IF is_categorical /\ IsRegressor(model.id) THEN Exc("TypeError")
    ELSE IF ~is_categorical /\ IsClassifier(model.id) THEN Exc("TypeError")
    ELSE IF is_categorical /\ ~HasPredictProba(model.id) THEN Exc("RuntimeError")
    ELSE NoExc

NotFitted == [fit |-> FALSE]

\* the argument checks of fit, lines 76-104, in the code's order
FitValidation(a) ==
    IF ~a.X.isdf THEN Exc("TypeError")
    ELSE IF Len(a.X.cols) < 2 THEN Exc("ValueError")
    ELSE IF a.cause \notin NameSet(a.X.cols) THEN Exc("ValueError")
    ELSE IF a.effect \notin NameSet(a.X.cols) THEN Exc("ValueError")
    ELSE IF IsSklearnEstimator(a.model_cause, Col(a.X.cols, a.cause).cat) # NoExc
         THEN IsSklearnEstimator(a.model_cause, Col(a.X.cols, a.cause).cat)
    ELSE IsSklearnEstimator(a.model_effect, Col(a.X.cols, a.effect).cat)

\* the cause's model, lines 107-111
FitCause(a, hp) ==
    IF a.adjustments = <<>>
    THEN [exc |-> NoExc, model |-> NoModel,
          resid |-> [vals |-> Col(a.X.cols, a.cause).vals, cat |-> Col(a.X.cols, a.cause).cat],
          heap |-> hp, log |-> <<>>]
    ELSE IF Missing(a.X.cols, a.adjustments)
    THEN [exc |-> Exc("KeyError"), model |-> NoModel, resid |-> <<>>, heap |-> hp, log |-> <<>>]
    ELSE MakeModel(SelectCols(a.X.cols, a.adjustments), Col(a.X.cols, a.cause),
                   "model_cause", a.model_cause, hp)

\* the effect's model, lines 114-115
FitEffect(a, hp) ==
    MakeModel(SelectCols(a.X.cols, <<a.cause>> \o a.adjustments), Col(a.X.cols, a.effect),
              "model_effect", a.model_effect, hp)

\* fit(X, cause, effect, adjustments, model_cause, model_effect): the
\* exception raised (or none), the fitted state and the heap it leaves
FitResult(f, hp, a) ==
    LET v == FitValidation(a)
    IN  IF v # NoExc THEN [exc |-> v, fitted |-> f, heap |-> hp, log |-> <<>>]
        ELSE LET c == FitCause(a, hp)
             IN  IF c.exc # NoExc
                 THEN [exc |-> c.exc, fitted |-> f, heap |-> c.heap, log |-> c.log]
                 ELSE LET e == FitEffect(a, c.heap)
                      IN  IF e.exc # NoExc
                          THEN [exc |-> e.exc, fitted |-> f, heap |-> e.heap, log |-> c.log \o e.log]
                          ELSE [exc |-> NoExc,
                                fitted |-> [fit |-> TRUE, X |-> a.X, cause |-> a.cause,
                                            effect |-> a.effect, adjustments |-> a.adjustments,
                                            model_cause_ |-> c.model, model_effect_ |-> e.model,
                                            error_cause_ |-> c.resid, error_effect_ |-> e.resid],
                                heap |-> e.heap, log |-> c.log \o e.log]

\* -------------------------------------------------------------- generate
NoDict == [kind |-> "none", items |-> <<>>]

NotADict == [kind |-> "notdict", items |-> <<>>]

Dict(items) == [kind |-> "dict", items |-> items]

Item(key, vals) == [key |-> key, isstr |-> TRUE, vals |-> vals]

\* an entry whose key is not a str (an int)
IntItem(vals) == [key |-> "1", isstr |-> FALSE, vals |-> vals]

HasKey(d, n) == \E i \in 1..Len(d.items) : d.items[i].isstr /\ d.items[i].key = n

Lookup(d, n) == (CHOOSE it \in SeqSet(d.items) : it.isstr /\ it.key = n).vals

FittedNames(f) == {f.cause, f.effect} \cup SeqSet(f.adjustments)

\* the length of an override array left unchecked
LenNeverChecked(vals, f) == FALSE

\* values.shape[0] != self._X.shape[0], line 330
LenMismatch(vals, f) == Len(vals) # Len(f.X.index)

\* the loop of _check_data_dict over the entries, lines 322-331
RECURSIVE CheckItems(_, _)
CheckItems(items, f) ==
    IF items = <<>> THEN NoExc
    ELSE IF ~Head(items).isstr THEN Exc("TypeError")
    ELSE IF ~f.fit THEN Exc("AttributeError")
    ELSE IF Head(items).key \notin FittedNames(f) THEN Exc("ValueError")
    ELSE IF LenMismatch(Head(items).vals, f) THEN Exc("ValueError")
    ELSE CheckItems(Tail(items), f)

\* _check_data_dict(data_dict, name)
CheckDataDict(d, f) ==
    IF d.kind = "none" THEN NoExc
    ELSE IF d.kind = "notdict" THEN Exc("TypeError")
    ELSE CheckItems(d.items, f)

\* the custom mechanisms a caller can pass: none, an object that is not
\* callable, a function of the noise, a function that raises
Callables == {"none", "notcallable", "fshift", "fraise"}

\* the argument checks of generate, lines 175-184
GenerateValidation(f, a) ==
    IF CheckDataDict(a.interv_endog, f) # NoExc THEN CheckDataDict(a.interv_endog, f)
    ELSE IF CheckDataDict(a.interv_exog, f) # NoExc THEN CheckDataDict(a.interv_exog, f)
    ELSE IF a.cause_model = "notcallable" THEN Exc("TypeError")
    ELSE IF a.effect_model = "notcallable" THEN Exc("TypeError")
    ELSE IF ~f.fit THEN Exc("AttributeError")
    ELSE NoExc

\* for name, interv_exog_ in interv_exog.items(): generated[name] = interv_exog_
RECURSIVE ApplyExog(_, _)
ApplyExog(gen, items) ==
    IF items = <<>> THEN gen
    ELSE ApplyExog(SetCol(gen, Head(items).key, Head(items).vals, FALSE), Tail(items))

\* lines 186-195: the working copy, seeded with the residuals, then the
\* exogenous overrides
Seeded(f, a) ==
    ApplyExog(
        SetCol(SetCol(SelectCols(f.X.cols, <<f.cause, f.effect>> \o f.adjustments),
                      f.cause, f.error_cause_.vals, f.error_cause_.cat),
               f.effect, f.error_effect_.vals, f.error_effect_.cat),
        a.interv_exog.items)

\* "generated[name] = values" with an array that is not as long as the
\* table's index: the assignment itself raises ValueError
Misfit(vals, f) == Len(vals) # Len(f.X.index)

\* line 195 reached with an exogenous array of the wrong length
ExogMisfit(f, a) == \E k \in 1..Len(a.interv_exog.items) : Misfit(a.interv_exog.items[k].vals, f)

\* a custom mechanism taking precedence over the endogenous intervention
UsesEndogUnlessCustom(a, target) ==
    /\ HasKey(a.interv_endog, target)
    /\ a.cause_model = "none"
    /\ a.effect_model = "none"

\* "if self._cause in interv_endog.keys()", lines 198 and 228
UsesEndog(a, target) == HasKey(a.interv_endog, target)

\* the custom callable applied to (features, noise, args)
ApplyFn(fn, feats, noise) == [i \in 1..Len(noise) |-> AddV(noise[i], 1)]

\* the drawn position returned in place of the class at that position
SampleIndex(classes, draw) == [i \in 1..Len(draw) |-> (draw[i] % Len(classes)) + 1]

\* self._random_state.choice(classes_, p=proba_), one draw per row
Sample(classes, draw) == [i \in 1..Len(draw) |-> classes[(draw[i] % Len(classes)) + 1]]

\* the prediction replacing the column, its noise dropped
SignalOnly(noise, pred) == pred

\* "generated[target] += np.array(predicted)", lines 217 and 247
NoisePlusSignal(noise, pred) == AddVec(noise, pred)

\* the failure of a custom callable, lines 208-209 and 238-239
WrapCall(name, e) == Wrapped(name, e)

\* lines 198-225 (cause) and 228-255 (effect): one variable's column
Resolve(f, hp, a, gen, target, featNames, fn, fnName, model, modelName, draw) ==
    LET wasCat == Col(f.X.cols, target).cat
        feats == SelectCols(gen, featNames)
        noise == Col(gen, target).vals
        st == Deref(model, hp)
        user == model.kind = "user"
        pe == PredictExc(modelName, model, st, feats)
    IN  IF UsesEndog(a, target) /\ Misfit(Lookup(a.interv_endog, target), f)
        THEN [exc |-> Exc("ValueError"), cols |-> gen, log |-> <<>>]
        ELSE IF UsesEndog(a, target)
        THEN [exc |-> NoExc, cols |-> SetCol(gen, target, Lookup(a.interv_endog, target), FALSE),
              log |-> <<>>]
        ELSE IF fn # "none"
        THEN IF fn = "fraise"
             THEN [exc |-> WrapCall(fnName, UserExc(fnName)), cols |-> gen,
                   log |-> <<Event("call", fnName, TRUE, Raw(feats))>>]
             ELSE [exc |-> NoExc, cols |-> SetCol(gen, target, ApplyFn(fn, feats, noise), wasCat),
                   log |-> <<Event("call", fnName, TRUE, Raw(feats))>>]
        ELSE IF model.kind = "none"
        THEN [exc |-> Exc("AttributeError"), cols |-> gen, log |-> <<>>]
        ELSE IF pe # NoExc
        THEN [exc |-> pe, cols |-> gen, log |-> <<Event("predict", modelName, user, Raw(feats))>>]
        ELSE IF ~wasCat
        THEN [exc |-> NoExc,
              cols |-> SetCol(gen, target, NoisePlusSignal(noise, PredictVals(st, feats)), FALSE),
              log |-> <<Event("predict", modelName, user, Raw(feats))>>]
        ELSE [exc |-> NoExc, cols |-> SetCol(gen, target, Sample(st.classes, draw), TRUE),
              log |-> <<Event("predict", modelName, user, Raw(feats))>>]

ResolveCause(f, hp, a, gen, draw) ==
    Resolve(f, hp, a, gen, f.cause, f.adjustments, a.cause_model, "cause_model",
            f.model_cause_, "model_cause", draw)

ResolveEffect(f, hp, a, gen, draw) ==
    Resolve(f, hp, a, gen, f.effect, <<f.cause>> \o f.adjustments, a.effect_model,
            "effect_model", f.model_effect_, "model_effect", draw)

NoTable == [index |-> <<>>, cols |-> <<>>]

\* the columns a .loc selection returns for the labels asked
LocCols(gen, names) == SelectCols(gen, names)

\* generated.loc[self._X.index, self._X.columns], line 257: a label that is
\* no column of the working table raises KeyError
Loc(f, gen) ==
    IF Missing(gen, ColNames(f.X.cols))
    THEN [exc |-> Exc("KeyError"), out |-> NoTable]
    ELSE [exc |-> NoExc, out |-> [index |-> f.X.index, cols |-> LocCols(gen, ColNames(f.X.cols))]]

BuildEv == Event("build", "generated", FALSE, <<>>)

LocEv == Event("loc", "generated", FALSE, <<>>)

\* generate(interv_endog, interv_exog, cause_model, cause_model_args,
\*          effect_model, effect_model_args)
GenerateResult(f, hp, a, dc, de) ==
    LET v == GenerateValidation(f, a)
    IN  IF v # NoExc THEN [exc |-> v, out |-> NoTable, log |-> <<>>]
        ELSE IF ExogMisfit(f, a)
        THEN [exc |-> Exc("ValueError"), out |-> NoTable, log |-> <<BuildEv>>]
        ELSE LET c == ResolveCause(f, hp, a, Seeded(f, a), dc)
             IN  IF c.exc # NoExc
                 THEN [exc |-> c.exc, out |-> NoTable, log |-> <<BuildEv>> \o c.log]
                 ELSE LET e == ResolveEffect(f, hp, a, c.cols, de)
                      IN  IF e.exc # NoExc
                          THEN [exc |-> e.exc, out |-> NoTable,
                                log |-> <<BuildEv>> \o c.log \o e.log]
                          ELSE [exc |-> Loc(f, e.cols).exc, out |-> Loc(f, e.cols).out,
                                log |-> <<BuildEv>> \o c.log \o e.log \o <<LocEv>>]

\* ---------------------------------------------------------------- inputs
Pos(name) == CASE name = "A" -> 1 [] name = "B" -> 2 [] OTHER -> 3

\* the observed value of a column in a row, for a data set s
Cell(name, i, s) == (i * (Pos(name) + s)) % (MaxVal + 1)

Column(name, cat, s) == [name |-> name, cat |-> cat, vals |-> [i \in Rows |-> Cell(name, i, s)]]

\* the row labels: a range index, or the same labels in reverse order
Index(s) == [i \in Rows |-> IF s = 0 THEN i - 1 ELSE NumRows - i]

Table(layout, cats, s) ==
    [isdf |-> TRUE, index |-> Index(s),
     cols |-> [k \in 1..Len(layout) |-> Column(layout[k], layout[k] \in cats, s)]]

\* an X that is no pandas.DataFrame
NotATable == [isdf |-> FALSE, index |-> <<>>, cols |-> <<>>]

Wide(cats, s) == Table(<<"B", "A", "C">>, cats, s)

FitTables ==
    {NotATable, Table(<<"A">>, {}, 0), Wide({}, 1), Wide({"A"}, 0), Wide({"C"}, 0)}
    \cup {Table(<<"A", "B">>, {}, s) : s \in Seeds}
    \cup {Wide({"B"}, s) : s \in Seeds}

Adjustments == {<<>>, <<"C">>}

FitCall(t, c, e, adj, mc, me) ==
    [X |-> t, cause |-> c, effect |-> e, adjustments |-> adj, model_cause |-> mc,
     model_effect |-> me]

\* calls that leave the models to the generator
DefaultFits ==
    {FitCall(t, "A", "B", adj, NoModel, NoModel) : t \in FitTables, adj \in Adjustments}
    \cup {FitCall(Wide({}, 1), "A", "B", <<"A">>, NoModel, NoModel)}
    \cup {FitCall(Table(<<"A", "B">>, {}, 0), ce[1], ce[2], <<>>, NoModel, m) :
            ce \in {<<"Z", "B">>, <<"A", "Z">>}, m \in {NoModel, UserModel("R")}}

\* calls that pass estimator objects for continuous targets
RegressorFits ==
    {FitCall(Wide({}, s), "A", "B", <<"C">>, UserModel("R"), m) :
        s \in Seeds, m \in {NoModel, UserModel("Rf"), UserModel("Rp")}}
    \cup {FitCall(Wide(cats, 0), "A", "B", <<"C">>, mp[1], mp[2]) :
            cats \in {{}, {"C"}},
            mp \in {<<NoModel, UserModel("R")>>, <<UserModel("Rf"), NoModel>>,
                    <<UserModel("Rp"), NoModel>>, <<UserModel("K"), NoModel>>}}

\* calls that pass estimator objects for categorical targets
ClassifierFits ==
    {FitCall(Wide({"B"}, 1), "A", "B", <<>>, NoModel, UserModel(id)) : id \in {"K", "Kn", "R"}}
    \cup {FitCall(Wide({"A"}, 0), "A", "B", <<"C">>, UserModel(id), NoModel) : id \in {"K", "Kn"}}

FitArgs == DefaultFits \cup RegressorFits \cup ClassifierFits

\* override arrays: a value no column holds, zeros, and an array one row short
Hi == Const(NumRows, MaxVal + 1)

Lo == Const(NumRows, 0)

Short == Const(NumRows - 1, 0)

Endogs ==
    {NoDict, NotADict, Dict(<<Item("A", Hi)>>), Dict(<<Item("B", Hi)>>),
     Dict(<<Item("A", Lo), Item("B", Hi)>>), Dict(<<Item("Z", Hi)>>),
     Dict(<<Item("A", Short)>>), Dict(<<IntItem(Short)>>)}

Exogs ==
    {NoDict, NotADict, Dict(<<Item("A", Lo)>>), Dict(<<Item("B", Lo)>>),
     Dict(<<Item("C", Hi)>>), Dict(<<Item("C", Short)>>)}

CallablePairs ==
    {<<"none", c>> : c \in Callables} \cup {<<c, "none">> : c \in Callables}

GenerateArgs ==
    {[interv_endog |-> en, interv_exog |-> ex, cause_model |-> cp[1], effect_model |-> cp[2]] :
        en \in Endogs, ex \in Exogs, cp \in CallablePairs}

Draws == [Rows -> 0..MaxVal]

\* --------------------------------------------------------------- actions
Idle == [op |-> "idle", args |-> <<>>, exc |-> NoExc, out |-> NoTable, log |-> <<>>]

Init ==
    /\ fitted = NotFitted
    /\ heap = [id \in Stored |-> Unfit]
    /\ last = Idle

\* one call of fit
Fit ==
    /\ last.op = "idle"
    /\ \E a \in FitArgs :
        LET r == FitResult(fitted, heap, a)
        IN  /\ fitted' = r.fitted
            /\ heap' = r.heap
            /\ last' = [op |-> "fit", args |-> a, exc |-> r.exc, out |-> NoTable, log |-> r.log]

\* whether a call draws labels for the target from the random stream
DrawsLabels(f, a, target, fn) ==
    /\ f.fit
    /\ Col(f.X.cols, target).cat
    /\ ~UsesEndog(a, target)
    /\ fn = "none"

\* one call of generate; the draws are the random stream's choice
Generate ==
    /\ last.op = "idle"
    /\ \E a \in GenerateArgs :
        \E dc \in IF DrawsLabels(fitted, a, fitted.cause, a.cause_model) THEN Draws ELSE {Lo},
           de \in IF DrawsLabels(fitted, a, fitted.effect, a.effect_model) THEN Draws ELSE {Lo} :
            LET r == GenerateResult(fitted, heap, a, dc, de)
            IN  /\ last' = [op |-> "generate", args |-> a, exc |-> r.exc, out |-> r.out,
                            log |-> r.log]
                /\ UNCHANGED <<fitted, heap>>

\* the caller takes the returned value or the exception; the next call follows
Discard ==
    /\ last.op # "idle"
    /\ last' = Idle
    /\ UNCHANGED <<fitted, heap>>

Next == Fit \/ Generate \/ Discard

Spec == Init /\ [][Next]_vars

\* ---------------------------------------------------------------- claims
IsFit == last.op = "fit"

IsGen == last.op = "generate"

Returned == last.exc = NoExc

\* the values of every output column called n
OutCols(n) == Raw(Matching(last.out.cols, n))

XCol(n) == Col(fitted.X.cols, n)

NoInterventions ==
    /\ last.args.interv_endog = NoDict
    /\ last.args.interv_exog = NoDict
    /\ last.args.cause_model = "none"
    /\ last.args.effect_model = "none"

\* C1: after a fit with continuous cause and effect, generate() without
\* interventions or custom mechanisms returns a table whose cause and effect
\* columns are the fitted table's.
C1_RoundTrip ==
    (IsGen /\ fitted.fit /\ NoInterventions
        /\ ~XCol(fitted.cause).cat /\ ~XCol(fitted.effect).cat)
    => (/\ Returned
        /\ OutCols(fitted.cause) = <<XCol(fitted.cause).vals>>
        /\ OutCols(fitted.effect) = <<XCol(fitted.effect).vals>>)

\* C2: when generate returns and interv_endog has the cause (the effect) as a
\* key, the output's cause (effect) column is exactly the override array.
C2_EndogWins ==
    (IsGen /\ Returned) =>
        \A v \in {fitted.cause, fitted.effect} :
            HasKey(last.args.interv_endog, v) =>
                /\ OutCols(v) # <<>>
                /\ \A k \in 1..Len(OutCols(v)) :
                    OutCols(v)[k] = Lookup(last.args.interv_endog, v)

C2_Witness ==
    /\ IsGen /\ Returned
    /\ HasKey(last.args.interv_endog, fitted.cause)
    /\ HasKey(last.args.interv_exog, fitted.cause)
    /\ last.args.cause_model = "fshift"
    /\ fitted.model_cause_ # NoModel

\* C3: whenever generate gets as far as its final selection it returns a
\* table with the fitted table's column names, in their order, and its index.
C3_ShapePreserved ==
    (IsGen /\ last.log # <<>> /\ last.log[Len(last.log)] = LocEv)
    => (/\ Returned
        /\ ColNames(last.out.cols) = ColNames(fitted.X.cols)
        /\ last.out.index = fitted.X.index)

\* the fitted state as a caller reads it: the attributes, with each model's
\* parameters
View(f, hp) ==
    IF ~f.fit THEN <<>>
    ELSE <<f, Deref(f.model_cause_, hp), Deref(f.model_effect_, hp)>>

\* C4: a generate call, and a fit call that raises, leave the fitted state
\* (models, residuals, X, cause, effect, adjustments) as it was.
C4_FittedStateKept ==
    [][(last'.op = "generate" \/ (last'.op = "fit" /\ last'.exc # NoExc))
        => View(fitted', heap') = View(fitted, heap)]_vars

Items(d) == SeqSet(d.items)

\* some override array of the call is not as long as the fitted table
BadLength ==
    \E it \in Items(last.args.interv_endog) \cup Items(last.args.interv_exog) :
        Len(it.vals) # Len(fitted.X.index)

BadName ==
    \/ last.args.cause \notin NameSet(last.args.X.cols)
    \/ last.args.effect \notin NameSet(last.args.X.cols)

NoFitEvent == \A k \in 1..Len(last.log) : last.log[k].ev # "fit"

\* a value of the wrong kind: an argument that is no dict, a key that is no str
IllTyped ==
    \/ last.args.interv_endog.kind = "notdict"
    \/ last.args.interv_exog.kind = "notdict"
    \/ \E it \in Items(last.args.interv_endog) \cup Items(last.args.interv_exog) : ~it.isstr

\* C5 as stated: a fit on a table without the cause or effect column raises
\* ValueError before any model is fitted, and a generate call with an override
\* array of the wrong length raises ValueError before the working table is
\* built and before any mechanism or prediction runs.
C5_ValueErrorFirst ==
    /\ (IsFit /\ last.args.X.isdf /\ BadName)
        => (last.exc.type = "ValueError" /\ NoFitEvent)
    /\ (IsGen /\ fitted.fit /\ BadLength)
        => (last.exc.type = "ValueError" /\ last.log = <<>>)

\* C5 amended: the generate call raises before any work, with a ValueError
\* unless a check of an argument's or key's type fails first (TypeError).
C5_ValidationFirst ==
    /\ (IsFit /\ last.args.X.isdf /\ BadName)
        => (last.exc.type = "ValueError" /\ NoFitEvent)
    /\ (IsGen /\ fitted.fit /\ BadLength)
        => (/\ last.exc.type \in {"ValueError", "TypeError"}
            /\ last.log = <<>>
            /\ last.out = NoTable
            /\ (last.exc.type = "TypeError" => IllTyped)
            /\ (~IllTyped => last.exc.type = "ValueError"))

C5_Witness ==
    /\ IsGen /\ fitted.fit /\ BadLength
    /\ ~IllTyped
    /\ last.args.cause_model = "fshift"
    /\ last.exc.type = "ValueError"

ModelOf(v) == IF v = fitted.cause THEN fitted.model_cause_ ELSE fitted.model_effect_

CustomOf(v) == IF v = fitted.cause THEN last.args.cause_model ELSE last.args.effect_model

LabelsIn(v) ==
    \A k \in 1..Len(OutCols(v)) :
        SeqSet(OutCols(v)[k]) \subseteq SeqSet(Deref(ModelOf(v), heap).classes)

\* C6 as stated: after any generate call that returns, every label of a
\* categorical cause or effect column is one of its fitted model's classes_.
C6_LabelsKnown ==
    (IsGen /\ Returned) =>
        \A v \in {fitted.cause, fitted.effect} :
            (XCol(v).cat /\ ModelOf(v) # NoModel) => LabelsIn(v)

\* C6 amended: that holds of a categorical cause or effect the fitted model
\* resolves (no endogenous intervention on it, no custom mechanism for it).
C6_SampledLabelsKnown ==
    (IsGen /\ Returned) =>
        \A v \in {fitted.cause, fitted.effect} :
            (/\ XCol(v).cat /\ ModelOf(v) # NoModel
             /\ ~HasKey(last.args.interv_endog, v)
             /\ CustomOf(v) = "none") => (OutCols(v) # <<>> /\ LabelsIn(v))

C6_Witness ==
    /\ IsGen /\ Returned
    /\ XCol(fitted.effect).cat
    /\ ~HasKey(last.args.interv_endog, fitted.effect)
    /\ last.args.effect_model = "none"
    /\ HasKey(last.args.interv_endog, fitted.cause)
    /\ Len(Deref(fitted.model_effect_, heap).classes) > 1

\* the effect's noise column: the exogenous override, else the residual
EffectNoise ==
    IF HasKey(last.args.interv_exog, fitted.effect)
    THEN Lookup(last.args.interv_exog, fitted.effect)
    ELSE fitted.error_effect_.vals

EffectByModel ==
    /\ IsGen /\ Returned
    /\ ~XCol(fitted.effect).cat
    /\ ~HasKey(last.args.interv_endog, fitted.effect)
    /\ last.args.effect_model = "none"

\* C7: a continuous effect resolved by the fitted effect model is its noise
\* column plus the model's prediction from the call's resolved cause column
\* and the adjustment columns after the exogenous overrides.
C7_Propagation ==
    EffectByModel =>
        /\ OutCols(fitted.effect) =
            <<AddVec(EffectNoise,
                     PredictVals(Deref(fitted.model_effect_, heap),
                                 SelectCols(last.out.cols,
                                            <<fitted.cause>> \o fitted.adjustments)))>>
        /\ \A k \in 1..Len(fitted.adjustments) :
            OutCols(fitted.adjustments[k]) =
                <<IF HasKey(last.args.interv_exog, fitted.adjustments[k])
                  THEN Lookup(last.args.interv_exog, fitted.adjustments[k])
                  ELSE XCol(fitted.adjustments[k]).vals>>

C7_Witness ==
    /\ EffectByModel
    /\ Deref(fitted.model_effect_, heap).w > 0
    /\ HasKey(last.args.interv_endog, fitted.cause)
    /\ OutCols(fitted.effect) # <<fitted.error_effect_.vals>>
    /\ OutCols(fitted.effect) # <<XCol(fitted.effect).vals>>

\* the cause's noise column: the exogenous override, else the residual
CauseNoise ==
    IF HasKey(last.args.interv_exog, fitted.cause)
    THEN Lookup(last.args.interv_exog, fitted.cause)
    ELSE fitted.error_cause_.vals

\* C8: after a fit without adjustments the cause has no model and its
\* residual is the raw column, and a valid generate call without an
\* endogenous intervention on the cause or a custom cause_model returns with
\* the cause's noise column as the cause.
C8_CauseWithoutModel ==
    /\ (fitted.fit /\ fitted.adjustments = <<>>)
        => (/\ fitted.model_cause_ = NoModel
            /\ fitted.error_cause_.vals = XCol(fitted.cause).vals)
    /\ (/\ IsGen /\ fitted.fit /\ fitted.adjustments = <<>>
        /\ GenerateValidation(fitted, last.args) = NoExc
        /\ ~HasKey(last.args.interv_endog, fitted.cause)
        /\ last.args.cause_model = "none"
        /\ last.args.effect_model # "fraise")
        => (Returned /\ OutCols(fitted.cause) = <<CauseNoise>>)

LastEvent == last.log[Len(last.log)]

\* how often the call invoked that method of that delegate
TimesCalled(who, ev) ==
    Cardinality({k \in 1..Len(last.log) : last.log[k].who = who /\ last.log[k].ev = ev})

\* the call ended with a RuntimeError that names the delegate and carries its
\* message, after a single call of it
WrappedOnce ==
    /\ last.exc.type = "RuntimeError"
    /\ last.exc.names = last.exc.origin
    /\ last.exc.names = LastEvent.who
    /\ last.exc.msg = UserExc(LastEvent.who).msg
    /\ TimesCalled(LastEvent.who, LastEvent.ev) = 1

\* C9 as stated: every failure of a delegate (a caller's model's fit or
\* predict, a custom callable) ends the call with such a RuntimeError.
C9_AllDelegatesWrapped ==
    ((IsFit \/ IsGen) /\ last.exc.origin # "") => WrappedOnce

\* C9 amended: the failure of a caller-supplied model's fit, and of a custom
\* cause_model or effect_model, ends the call with such a RuntimeError.
C9_FitAndCallablesWrapped ==
    ((IsFit \/ IsGen) /\ last.exc.origin # "" /\ LastEvent.ev \in {"fit", "call"})
        => WrappedOnce

C9_Witness ==
    /\ IsGen
    /\ last.exc.origin = "effect_model"
    /\ last.exc.type = "RuntimeError"
    /\ TimesCalled("effect_model", "call") = 1
    /\ TimesCalled("model_cause", "predict") = 1

\* the features a model of the last fit call is trained on
FeaturesOf(who) ==
    SelectCols(last.args.X.cols,
               IF who = "model_cause" THEN last.args.adjustments
               ELSE <<last.args.cause>> \o last.args.adjustments)

HasCategorical(feat) == \E k \in 1..Len(feat) : feat[k].cat

\* what the default estimator sees: the encoded matrix exactly when a feature
\* is categorical
Encoded(feat) ==
    IF HasCategorical(feat) THEN OneHot(feat, Encoder(feat))
    ELSE [k \in 1..Len(feat) |-> feat[k].vals]

FitEvents == {k \in 1..Len(last.log) : last.log[k].ev = "fit"}

\* C10 as stated: a caller-supplied model is fitted on the one-hot encoded
\* features exactly when a feature is categorical, as the default model is.
C10_UserModelEncoded ==
    IsFit => \A k \in FitEvents : last.log[k].X = Encoded(FeaturesOf(last.log[k].who))

\* C10 amended: a caller-supplied model is fitted on the raw features, also
\* when a feature is categorical; the default model on the encoded ones.
C10_UserModelRaw ==
    IsFit => \A k \in FitEvents :
        LET feat == FeaturesOf(last.log[k].who)
        IN  IF last.log[k].user
            THEN /\ Len(last.log[k].X) = Len(feat)
                 /\ \A j \in 1..Len(feat) : last.log[k].X[j] = feat[j].vals
            ELSE last.log[k].X = Encoded(feat)

C10_Witness ==
    /\ IsFit /\ Returned
    /\ \E k \in FitEvents :
        /\ last.log[k].user
        /\ HasCategorical(FeaturesOf(last.log[k].who))
        /\ last.log[k].X # Encoded(FeaturesOf(last.log[k].who))

====
